---- MODULE Spec2Model ----
(***************************************************************************)
(* Component normalisation, failure categorisation, loading and            *)
(* aggregation of the repair-video analysis dashboard                      *)
(* (src/visualization/data_loader.py), and the URL-processing loop that    *)
(* fills the record store (src/main.py).                                   *)
(*                                                                         *)
(* Text is modelled as a sequence of one-character strings, so that        *)
(* lower(), strip(), the substring test `kw in text` and re.split() are    *)
(* computed character by character as Python computes them.                *)
(***************************************************************************)
EXTENDS Integers, Sequences, FiniteSets, TLC

VARIABLES
    pc,         \* position of the call sequence under study
    component,  \* argument of normalize_components
    labels,     \* list returned by normalize_components
    first,      \* list returned by the previous normalize_components call
    reason,     \* argument of categorize
    category,   \* value returned by categorize
    raised,     \* exception raised by the last call, "none" if it returned
    df,         \* the record collection (DataFrame rows, in order)
    op,         \* the aggregation last called on df
    stats,      \* rows returned by that aggregation
    store,      \* output.json: the list of stored records
    input_file, \* urls_to_add.txt: its lines
    archive_file,   \* urls.txt: its lines
    urls,       \* main(): the list read_urls returned
    idx,        \* main(): position in urls of the URL being processed
    repairs,    \* main(): the list process_video returned for that URL
    outcome     \* how fetching and analysing that URL went

\* the variables of main()
mainVars == <<input_file, archive_file, urls, idx, repairs, outcome>>

vars == <<pc, component, labels, first, reason, category, raised, df, op, stats,
          store, mainVars>>

(***************************************************************************)
(* Bounds of the model.                                                    *)
(***************************************************************************)
MaxTokens == 3      \* tokens concatenated into a generated component string
MaxReasonTokens == 2    \* tokens concatenated into a generated failure reason
MaxRecords == 3     \* records in a generated collection
MaxStore == 2       \* records in a generated output.json
MaxLines == 2       \* lines in a generated urls_to_add.txt

(***************************************************************************)
(* Python values: None, str, and a number standing for any non-text JSON   *)
(* scalar; NaN, the float pandas puts where a record lacks a key; lists.   *)
(***************************************************************************)
None == [kind |-> "none", chars |-> <<>>, num |-> 0]
NaN == [kind |-> "nan", chars |-> <<>>, num |-> 0]
List(xs) == [kind |-> "list", items |-> xs]
Str(s) == [kind |-> "str", chars |-> s, num |-> 0]
Num(n) == [kind |-> "num", chars |-> <<>>, num |-> n]
Bool(b) == [kind |-> "bool", chars |-> <<>>, num |-> IF b THEN 1 ELSE 0]
PyTrue == Bool(TRUE)
PyFalse == Bool(FALSE)

\* pd.isna(x) on a scalar
isna(x) == x.kind \in {"none", "nan"}

\* bool(x): None, "", 0 and [] are falsy
truthy(x) ==
    \/ x.kind = "nan"
    \/ x.kind = "list" /\ Len(x.items) > 0
    \/ x.kind = "str" /\ Len(x.chars) > 0
    \/ x.kind = "num" /\ x.num # 0
    \/ x.kind = "bool" /\ x.num # 0

\* main() is not running
MainIdle ==
    /\ input_file = <<>>
    /\ archive_file = <<>>
    /\ urls = <<>>
    /\ idx = 0
    /\ repairs = <<>>
    /\ outcome = "none"

\* the outcome of a call: a returned value or a raised exception
Return(v) == [exc |-> "none", value |-> v]
Raise(e) == [exc |-> e, value |-> <<>>]

(***************************************************************************)
(* str.lower(), str.strip(), `kw in text`                                  *)
(***************************************************************************)
LowerChar(c) ==
    CASE c = "A" -> "a" [] c = "B" -> "b" [] c = "C" -> "c" [] c = "D" -> "d"
      [] c = "E" -> "e" [] c = "F" -> "f" [] c = "G" -> "g" [] c = "H" -> "h"
      [] c = "I" -> "i" [] c = "J" -> "j" [] c = "K" -> "k" [] c = "L" -> "l"
      [] c = "M" -> "m" [] c = "N" -> "n" [] c = "O" -> "o" [] c = "P" -> "p"
      [] c = "Q" -> "q" [] c = "R" -> "r" [] c = "S" -> "s" [] c = "T" -> "t"
      [] c = "U" -> "u" [] c = "V" -> "v" [] c = "W" -> "w" [] c = "X" -> "x"
      [] c = "Y" -> "y" [] c = "Z" -> "z" [] OTHER -> c

RECURSIVE lower(_)
lower(s) == IF Len(s) = 0 THEN <<>> ELSE <<LowerChar(Head(s))>> \o lower(Tail(s))

IsSpace(c) == c \in {" ", "\t", "\n"}

RECURSIVE lstrip(_)
lstrip(s) == IF Len(s) > 0 /\ IsSpace(Head(s)) THEN lstrip(Tail(s)) ELSE s

RECURSIVE rstrip(_)
rstrip(s) ==
    IF Len(s) > 0 /\ IsSpace(s[Len(s)]) THEN rstrip(SubSeq(s, 1, Len(s) - 1)) ELSE s

strip(s) == rstrip(lstrip(s))

\* Python's `kw in text` on strings: kw occurs as a contiguous substring
In(kw, text) ==
    \E i \in 1..(Len(text) - Len(kw) + 1) : SubSeq(text, i, i + Len(kw) - 1) = kw

(***************************************************************************)
(* _COMPONENT_RULES: the ordered (label, keywords) table                   *)
(***************************************************************************)
COMPONENT_RULES ==
    <<
    [label |-> <<"M","o","t","o","r"," ","B","r","u","s","h","e","s">>,   \* 1: Motor Brushes
     keywords |-> <<
        <<"m","o","t","o","r"," ","b","r","u","s","h","e","s">>,   \* 'motor brushes'
        <<"b","r","u","s","h"," ","h","o","l","d","e","r">>,   \* 'brush holder'
        <<"b","r","u","s","h"," ","s","p","r","i","n","g">>,   \* 'brush spring'
        <<"m","o","t","o","r"," ","w","i","n","d","i","n","g","s"," ","a","n","d"," ","b","r","u","s","h","e","s">>,   \* 'motor windings and brushes'
        <<"m","o","t","o","r"," ","b","r","u","s","h","e","s"," ","a","n","d">>,   \* 'motor brushes and'
        <<"b","r","u","s","h","e","s">>   \* 'brushes'
     >>],
    [label |-> <<"A","r","m","a","t","u","r","e">>,   \* 2: Armature
     keywords |-> <<
        <<"a","r","m","a","t","u","r","e">>   \* 'armature'
     >>],
    [label |-> <<"B","a","t","t","e","r","y">>,   \* 3: Battery
     keywords |-> <<
        <<"b","a","t","t","e","r","y">>,   \* 'battery'
        <<"l","i","t","h","i","u","m"," ","i","o","n"," ","c","e","l","l","s">>   \* 'lithium ion cells'
     >>],
    [label |-> <<"P","o","w","e","r"," ","C","o","r","d">>,   \* 4: Power Cord
     keywords |-> <<
        <<"p","o","w","e","r"," ","c","o","r","d">>,   \* 'power cord'
        <<"p","o","w","e","r"," ","c","a","b","l","e">>,   \* 'power cable'
        <<"p","o","w","e","r"," ","w","i","r","e">>,   \* 'power wire'
        <<"c","a","b","l","e"," ","g","u","a","r","d">>   \* 'cable guard'
     >>],
    [label |-> <<"C","o","n","t","r","o","l","l","e","r"," ","/"," ","C","i","r","c","u","i","t"," ","B","o","a","r","d">>,   \* 5: Controller / Circuit Board
     keywords |-> <<
        <<"c","i","r","c","u","i","t"," ","b","o","a","r","d">>,   \* 'circuit board'
        <<"c","o","n","t","r","o","l","l","e","r">>,   \* 'controller'
        <<"c","o","n","t","r","o","l"," ","b","o","a","r","d">>,   \* 'control board'
        <<"s","p","e","e","d"," ","c","o","n","t","r","o","l","l","e","r">>,   \* 'speed controller'
        <<"p","o","w","e","r"," ","s","u","p","p","l","y"," ","b","o","a","r","d">>,   \* 'power supply board'
        <<"s","e","l","e","c","t","o","r"," ","s","w","i","t","c","h"," ","b","o","a","r","d">>,   \* 'selector switch board'
        <<"r","o","t","a","r","y"," ","e","n","c","o","d","e","r">>,   \* 'rotary encoder'
        <<"f","i","l","t","e","r"," ","c","a","p","a","c","i","t","o","r">>,   \* 'filter capacitor'
        <<"i","n","t","e","r","n","a","l"," ","e","l","e","c","t","r","o","n","i","c","s">>,   \* 'internal electronics'
        <<"c","a","p","a","c","i","t","o","r">>   \* 'capacitor'
     >>],
    [label |-> <<"S","w","i","t","c","h">>,   \* 6: Switch
     keywords |-> <<
        <<"s","w","i","t","c","h">>,   \* 'switch'
        <<"t","r","i","g","g","e","r">>   \* 'trigger'
     >>],
    [label |-> <<"M","o","t","o","r">>,   \* 7: Motor
     keywords |-> <<
        <<"m","o","t","o","r">>,   \* 'motor'
        <<"f","i","e","l","d"," ","c","o","i","l">>,   \* 'field coil'
        <<"f","i","e","l","d"," ","c","o","n","n","e","c","t","i","o","n">>,   \* 'field connection'
        <<"f","i","e","l","d">>,   \* 'field'
        <<"m","o","t","o","r","/","c","o","i","l">>   \* 'motor/coil'
     >>],
    [label |-> <<"C","h","u","c","k">>,   \* 8: Chuck
     keywords |-> <<
        <<"c","h","u","c","k">>,   \* 'chuck'
        <<"c","o","l","l","e","t">>,   \* 'collet'
        <<"b","i","t"," ","h","o","l","d","e","r">>   \* 'bit holder'
     >>],
    [label |-> <<"B","e","a","r","i","n","g">>,   \* 9: Bearing
     keywords |-> <<
        <<"b","e","a","r","i","n","g">>   \* 'bearing'
     >>],
    [label |-> <<"T","o","o","l"," ","H","o","l","d","e","r">>,   \* 10: Tool Holder
     keywords |-> <<
        <<"t","o","o","l"," ","h","o","l","d","e","r">>,   \* 'tool holder'
        <<"b","l","a","d","e"," ","c","l","a","m","p">>,   \* 'blade clamp'
        <<"b","l","a","d","e"," ","h","o","l","d","e","r">>,   \* 'blade holder'
        <<"b","l","a","d","e"," ","l","o","c","k">>,   \* 'blade lock'
        <<"b","l","a","d","e"," ","m","o","u","n","t","i","n","g">>,   \* 'blade mounting'
        <<"b","l","a","d","e"," ","i","n","s","t","a","l","l","a","t","i","o","n">>,   \* 'blade installation'
        <<"s","d","s"," ","t","o","o","l"," ","h","o","l","d","e","r">>   \* 'sds tool holder'
     >>],
    [label |-> <<"G","e","a","r","b","o","x"," ","/"," ","G","e","a","r","s">>,   \* 11: Gearbox / Gears
     keywords |-> <<
        <<"g","e","a","r","b","o","x">>,   \* 'gearbox'
        <<"g","e","a","r">>,   \* 'gear'
        <<"c","l","u","t","c","h">>,   \* 'clutch'
        <<"r","e","d","u","c","t","i","o","n"," ","g","e","a","r">>   \* 'reduction gear'
     >>],
    [label |-> <<"H","o","u","s","i","n","g"," ","/"," ","C","a","s","e">>,   \* 12: Housing / Case
     keywords |-> <<
        <<"h","o","u","s","i","n","g">>,   \* 'housing'
        <<"c","a","s","e"," ">>,   \* 'case '
        <<"b","a","s","e","/","g","u","a","r","d">>,   \* 'base/guard'
        <<"b","a","s","e"," ","a","d","j","u","s","t","m","e","n","t">>,   \* 'base adjustment'
        <<"p","l","a","s","t","i","c"," ","c","o","v","e","r">>,   \* 'plastic cover'
        <<"r","u","b","b","e","r"," ","c","a","p">>,   \* 'rubber cap'
        <<"r","u","b","b","e","r"," ","f","r","o","n","t">>,   \* 'rubber front'
        <<"m","o","u","n","t","i","n","g"," ","b","r","a","c","k","e","t">>   \* 'mounting bracket'
     >>],
    [label |-> <<"A","n","v","i","l">>,   \* 13: Anvil
     keywords |-> <<
        <<"a","n","v","i","l">>   \* 'anvil'
     >>],
    [label |-> <<"B","e","l","t"," ","/"," ","D","r","i","v","e">>,   \* 14: Belt / Drive
     keywords |-> <<
        <<"b","e","l","t">>,   \* 'belt'
        <<"d","r","i","v","e"," ","p","i","n">>,   \* 'drive pin'
        <<"d","r","i","v","e"," ","b","e","l","t">>   \* 'drive belt'
     >>],
    [label |-> <<"P","i","s","t","o","n"," ","/"," ","H","a","m","m","e","r"," ","M","e","c","h","a","n","i","s","m">>,   \* 15: Piston / Hammer Mechanism
     keywords |-> <<
        <<"p","i","s","t","o","n">>,   \* 'piston'
        <<"h","a","m","m","e","r"," ","m","e","c","h","a","n","i","s","m">>,   \* 'hammer mechanism'
        <<"i","m","p","a","c","t"," ","b","o","l","t">>,   \* 'impact bolt'
        <<"c","o","n","n","e","c","t","i","n","g"," ","r","o","d">>   \* 'connecting rod'
     >>],
    [label |-> <<"S","p","r","i","n","g">>,   \* 16: Spring
     keywords |-> <<
        <<"s","p","r","i","n","g">>,   \* 'spring'
        <<"l","i","f","t","e","r"," ","s","p","r","i","n","g">>   \* 'lifter spring'
     >>],
    [label |-> <<"N","a","i","l"," ","G","u","n"," ","M","e","c","h","a","n","i","s","m">>,   \* 17: Nail Gun Mechanism
     keywords |-> <<
        <<"n","a","i","l">>,   \* 'nail'
        <<"f","i","r","i","n","g"," ","p","i","n">>,   \* 'firing pin'
        <<"m","a","g","a","z","i","n","e">>   \* 'magazine'
     >>],
    [label |-> <<"F","a","n">>,   \* 18: Fan
     keywords |-> <<
        <<"f","a","n">>   \* 'fan'
     >>],
    [label |-> <<"W","i","r","i","n","g"," ","/"," ","C","o","n","n","e","c","t","o","r","s">>,   \* 19: Wiring / Connectors
     keywords |-> <<
        <<"w","i","r","i","n","g">>,   \* 'wiring'
        <<"c","o","n","n","e","c","t","o","r","s">>,   \* 'connectors'
        <<"t","e","r","m","i","n","a","l","s">>,   \* 'terminals'
        <<"c","a","b","l","e",",">>   \* 'cable,'
     >>],
    [label |-> <<"O","-","R","i","n","g"," ","/"," ","S","e","a","l">>,   \* 20: O-Ring / Seal
     keywords |-> <<
        <<"o","-","r","i","n","g">>,   \* 'o-ring'
        <<"g","a","s","k","e","t">>   \* 'gasket'
     >>]
    >>

(***************************************************************************)
(* _match_component: the first rule, in table order, one of whose keywords *)
(* occurs in the lowercased, stripped text; None when there is none.       *)
(***************************************************************************)
RECURSIVE match_rules(_, _)
match_rules(text, i) ==
    IF i > Len(COMPONENT_RULES) THEN None
    ELSE IF \E j \in 1..Len(COMPONENT_RULES[i].keywords) :
                In(COMPONENT_RULES[i].keywords[j], text)
         THEN Str(COMPONENT_RULES[i].label)
         ELSE match_rules(text, i + 1)

\* a variant of _match_component in which the last matching rule of the table wins
RECURSIVE match_rules_backwards(_, _)
match_rules_backwards(text, i) ==
    IF i < 1 THEN None
    ELSE IF \E j \in 1..Len(COMPONENT_RULES[i].keywords) :
                In(COMPONENT_RULES[i].keywords[j], text)
         THEN Str(COMPONENT_RULES[i].label)
         ELSE match_rules_backwards(text, i - 1)

match_component_last_rule(text) ==
    match_rules_backwards(strip(lower(text)), Len(COMPONENT_RULES))

match_component(text) == match_rules(strip(lower(text)), 1)

(***************************************************************************)
(* re.split(r"[,/]| and ", s): scan left to right, cut at each ',' or '/'  *)
(* or at the five characters " and ", keep the (possibly empty) pieces.    *)
(***************************************************************************)
AndDelimiter == <<" ", "a", "n", "d", " ">>

RECURSIVE re_split(_, _)
re_split(s, cur) ==
    IF Len(s) = 0 THEN <<cur>>
    ELSE IF Head(s) \in {",", "/"} THEN <<cur>> \o re_split(Tail(s), <<>>)
    ELSE IF Len(s) >= Len(AndDelimiter) /\ SubSeq(s, 1, Len(AndDelimiter)) = AndDelimiter
         THEN <<cur>> \o re_split(SubSeq(s, Len(AndDelimiter) + 1, Len(s)), <<>>)
    ELSE re_split(Tail(s), Append(cur, Head(s)))

\* the loop over parts: matched labels in first-seen order, `seen` the set of them
RECURSIVE match_parts(_, _, _)
match_parts(parts, matched, seen) ==
    IF Len(parts) = 0 THEN matched
    ELSE LET label == match_component(Head(parts)) IN
         IF truthy(label) /\ label.chars \notin seen
         THEN match_parts(Tail(parts), Append(matched, label.chars), seen \cup {label.chars})
         ELSE match_parts(Tail(parts), matched, seen)

(***************************************************************************)
(* normalize_components                                                    *)
(***************************************************************************)
\* a variant of normalize_components that tests pd.isna(component) alone
normalize_components_isna_only(c) ==
    IF isna(c) THEN Return(<<>>)
    ELSE IF c.kind # "str" THEN Raise("AttributeError")
    ELSE LET full_match == match_component(c.chars) IN
         IF truthy(full_match) THEN Return(<<full_match.chars>>)
         ELSE LET parts == re_split(c.chars, <<>>)
                  matched == match_parts(parts, <<>>, {})
              IN  Return(IF Len(matched) > 0 THEN matched ELSE <<strip(c.chars)>>)

\* a variant of normalize_components whose fallback returns the input unstripped
normalize_components_unstripped(c) ==
    IF isna(c) \/ ~truthy(c) THEN Return(<<>>)
    ELSE IF c.kind # "str" THEN Raise("AttributeError")
    ELSE LET full_match == match_component(c.chars) IN
         IF truthy(full_match) THEN Return(<<full_match.chars>>)
         ELSE LET parts == re_split(c.chars, <<>>)
                  matched == match_parts(parts, <<>>, {})
              IN  Return(IF Len(matched) > 0 THEN matched ELSE <<c.chars>>)

\* a variant of normalize_components that splits without trying the whole string first
normalize_components_split_first(c) ==
    IF isna(c) \/ ~truthy(c) THEN Return(<<>>)
    ELSE IF c.kind # "str" THEN Raise("AttributeError")
    ELSE LET parts == re_split(c.chars, <<>>)
             matched == match_parts(parts, <<>>, {})
         IN  Return(IF Len(matched) > 0 THEN matched ELSE <<strip(c.chars)>>)

normalize_components(c) ==
    IF isna(c) \/ ~truthy(c) THEN Return(<<>>)
    \* _match_component calls text.lower(): a non-str argument has no such method
    ELSE IF c.kind # "str" THEN Raise("AttributeError")
    ELSE LET full_match == match_component(c.chars) IN
         IF truthy(full_match) THEN Return(<<full_match.chars>>)
         ELSE LET parts == re_split(c.chars, <<>>)
                  matched == match_parts(parts, <<>>, {})
              IN  Return(IF Len(matched) > 0 THEN matched ELSE <<strip(c.chars)>>)

(***************************************************************************)
(* Inputs of the normaliser: strings concatenated from a token vocabulary, *)
(* the strings the documentation uses, the labels themselves, and non-text *)
(* values.                                                                 *)
(***************************************************************************)
RECURSIVE Concat(_)
Concat(ws) == IF Len(ws) = 0 THEN <<>> ELSE Head(ws) \o Concat(Tail(ws))

ComponentTokens ==
    { <<"b","e","a","r","i","n","g","s">>,
      <<"S","w","i","t","c","h">>,
      <<"b","e","l","t">>,
      <<"w","i","d","g","e","t">>,
      <<"m","o","t","o","r">>,
      <<" ","b","r","u","s","h","e","s">>,
      <<"c","a","s","e">>,
      <<",">>,
      <<"/">>,
      <<" ","a","n","d"," ">>,
      <<" ">> }

SeqsUpTo(S, n) == UNION { [1..k -> S] : k \in 0..n }

GeneratedComponents == { Concat(ws) : ws \in SeqsUpTo(ComponentTokens, MaxTokens) }

BearingsSwitchBelt ==
    <<"b","e","a","r","i","n","g","s",","," ","s","w","i","t","c","h",","," ","b","e","l","t">>

DocstringExample ==
    <<"b","e","a","r","i","n","g","s",","," ","s","w","i","t","c","h",","," ",
      "f","l","a","n","g","e","s",","," ","b","e","l","t">>

Widget == <<"w","i","d","g","e","t">>

ExampleComponents ==
    { BearingsSwitchBelt,
      DocstringExample,
      Widget,
      <<"m","o","t","o","r"," ","b","r","u","s","h","e","s">>,
      <<"s","e","l","e","c","t","o","r"," ","s","w","i","t","c","h"," ","b","o","a","r","d">>,
      <<" "," ","W","i","d","g","e","t","\n">>,
      <<"f","l","a","n","g","e","s"," ","a","n","d"," ","w","a","s","h","e","r","s">>,
      <<"c","a","b","l","e",","," ","p","l","u","g">>,
      <<"p","o","w","e","r"," ","c","o","r","d","/","t","r","i","g","g","e","r">>,
      <<"D","r","i","v","e"," ","B","e","l","t"," ","a","n","d"," ","b","e","a","r","i","n","g">>,
      <<"b","e","l","t",","," ","s","w","i","t","c","h">>,
      <<"g","a","s","k","e","t",","," ","o","-","r","i","n","g">>,
      <<" "," "," ">> }

LabelComponents == { COMPONENT_RULES[i].label : i \in 1..Len(COMPONENT_RULES) }

ComponentInputs ==
    { Str(s) : s \in GeneratedComponents \cup ExampleComponents \cup LabelComponents }
        \cup { None, Num(0), Num(5) }

(***************************************************************************)
(* Calls of the normaliser: normalize_components(component), then          *)
(* normalize_components on the first element of the list it returned.      *)
(***************************************************************************)
InitNormalize ==
    /\ pc = "start"
    /\ component \in ComponentInputs
    /\ labels = <<>>
    /\ first = <<>>
    /\ raised = "none"
    /\ reason = None
    /\ category = "none"
    /\ df = <<>>
    /\ op = "none"
    /\ stats = <<>>
    /\ store = <<>>
    /\ MainIdle

Normalize ==
    /\ pc = "start"
    /\ LET r == normalize_components(component) IN
        /\ labels' = r.value
        /\ raised' = r.exc
    /\ pc' = "normalized"
    /\ UNCHANGED <<component, first, reason, category, df, op, stats, store, mainVars>>

Renormalize ==
    /\ pc = "normalized"
    /\ raised = "none"
    /\ Len(labels) > 0
    /\ LET r == normalize_components(Str(labels[1])) IN
        /\ labels' = r.value
        /\ raised' = r.exc
    /\ first' = labels
    /\ pc' = "renormalized"
    /\ UNCHANGED <<component, reason, category, df, op, stats, store, mainVars>>

NextNormalize == Normalize \/ Renormalize

SpecNormalize == InitNormalize /\ [][NextNormalize]_vars

(***************************************************************************)
(* Properties of the normaliser                                            *)
(***************************************************************************)
\* the rules one of whose keywords occurs in an (already lowercased, stripped) text
MatchingRules(text) ==
    { i \in 1..Len(COMPONENT_RULES) :
        \E j \in 1..Len(COMPONENT_RULES[i].keywords) :
            In(COMPONENT_RULES[i].keywords[j], text) }

Min(S) == CHOOSE m \in S : \A n \in S : m <= n

\* the keywords of rule i that occur in text
MatchingKeywords(i, text) ==
    { COMPONENT_RULES[i].keywords[j] : j \in
        { k \in 1..Len(COMPONENT_RULES[i].keywords) : In(COMPONENT_RULES[i].keywords[k], text) } }

\* the pieces of s between the delimiters ',', '/' and " and "
Fragments(s) == re_split(s, <<>>)

\* the label of the earliest rule matching a fragment
FragmentLabel(frag) == COMPONENT_RULES[Min(MatchingRules(strip(lower(frag))))].label

RECURSIVE Distinct(_, _)
Distinct(ls, acc) ==
    IF Len(ls) = 0 THEN acc
    ELSE IF \E k \in 1..Len(acc) : acc[k] = Head(ls)
         THEN Distinct(Tail(ls), acc)
         ELSE Distinct(Tail(ls), Append(acc, Head(ls)))

\* C1: for a delimited component string each of whose fragments matches a rule,
\* normalize_components returns the fragments' labels, distinct, in first-seen
\* fragment order ("bearings, switch, belt" gives Bearing, Switch, Belt / Drive).
C1_FragmentLabelsInOrder ==
    (/\ pc = "normalized"
     /\ component.kind = "str"
     /\ Len(component.chars) > 0
     /\ \A k \in 1..Len(Fragments(component.chars)) :
            MatchingRules(strip(lower(Fragments(component.chars)[k]))) # {})
    => /\ raised = "none"
       /\ labels = Distinct([k \in 1..Len(Fragments(component.chars)) |->
                                FragmentLabel(Fragments(component.chars)[k])], <<>>)

C3_Idempotent ==
    pc = "renormalized" => (raised = "none" /\ labels = first)

\* C8: no value of component makes normalize_components raise, and no value
\* of failure_reason makes categorize raise.
C8_NeverRaises ==
    raised = "none"

\* C9: None and the empty string normalise to the empty list.
C9_NullOrEmptyGivesEmptyList ==
    (pc = "normalized" /\ (component = None \/ component = Str(<<>>)))
    => (raised = "none" /\ labels = <<>>)

C9_Witness ==
    pc = "normalized" /\ component = Str(<<>>) /\ raised = "none" /\ labels = <<>>

\* C10: a non-empty string in which neither the whole text nor any fragment
\* contains a rule keyword normalises to the one-element list holding the
\* input stripped of surrounding whitespace.
C10_UnmatchedPassesThrough ==
    (/\ pc = "normalized"
     /\ component.kind = "str"
     /\ Len(component.chars) > 0
     /\ MatchingRules(strip(lower(component.chars))) = {}
     /\ \A k \in 1..Len(Fragments(component.chars)) :
            MatchingRules(strip(lower(Fragments(component.chars)[k]))) = {})
    => (raised = "none" /\ labels = <<strip(component.chars)>>)

C10_Witness ==
    pc = "normalized" /\ component = Str(Widget) /\ labels = <<Widget>>

econ_keywords ==
    <<
        <<"n","o","t"," ","e","c","o","n","o","m">>,   \* not econom
        <<"u","n","e","c","o","n","o","m">>,   \* uneconom
        <<"n","o","t"," ","c","o","s","t"," ","e","f","f","e","c","t","i","v","e">>,   \* not cost effective
        <<"c","o","s","t"," ","e","f","f","e","c","t","i","v","e">>,   \* cost effective
        <<"n","o","t"," ","w","o","r","t","h">>,   \* not worth
        <<"t","o","o"," ","e","x","p","e","n","s","i","v","e">>,   \* too expensive
        <<"e","x","c","e","e","d"," ","t","o","o","l"," ","v","a","l","u","e">>,   \* exceed tool value
        <<"e","x","c","e","e","d"," ","v","a","l","u","e">>,   \* exceed value
        <<"c","o","s","t"," ","m","o","r","e"," ","t","h","a","n">>,   \* cost more than
        <<"c","o","s","t","s"," ","m","o","r","e"," ","t","h","a","n">>,   \* costs more than
        <<"c","o","s","t"," ","n","e","a","r","l","y">>,   \* cost nearly
        <<"c","o","s","t","s"," ","n","e","a","r","l","y">>,   \* costs nearly
        <<"c","o","s","t","s"," ","a","s"," ","m","u","c","h">>,   \* costs as much
        <<"c","o","s","t"," ","a","s"," ","m","u","c","h">>,   \* cost as much
        <<"c","o","s","t"," ","e","q","u","a","l","s">>,   \* cost equals
        <<"c","o","s","t","s"," ","e","q","u","a","l">>,   \* costs equal
        <<"m","a","k","i","n","g"," ","r","e","p","a","i","r">>,   \* making repair
        <<"n","o","t"," ","v","i","a","b","l","e">>   \* not viable
    >>

\* the four inline tests "water" in ..., "corrosion" in ..., "acid" in ..., "rust" in ...
water_keywords ==
    <<
        <<"w","a","t","e","r">>,
        <<"c","o","r","r","o","s","i","o","n">>,
        <<"a","c","i","d">>,
        <<"r","u","s","t">>
    >>

parts_keywords ==
    <<
        <<"n","o","t"," ","a","v","a","i","l","a","b","l","e">>,   \* not available
        <<"n","o"," ","r","e","p","l","a","c","e","m","e","n","t">>,   \* no replacement
        <<"n","o","t"," ","i","n"," ","s","t","o","c","k">>,   \* not in stock
        <<"n","e","e","d"," ","t","o"," ","b","e"," ","o","r","d","e","r","e","d">>,   \* need to be ordered
        <<"n","e","e","d","e","d"," ","t","o"," ","b","e"," ","o","r","d","e","r","e","d">>,   \* needed to be ordered
        <<"n","o"," ","l","o","n","g","e","r"," ","a","v","a","i","l","a","b","l","e">>,   \* no longer available
        <<"o","b","s","o","l","e","t","e">>,   \* obsolete
        <<"c","o","u","l","d"," ","n","o","t"," ","f","i","n","d">>,   \* could not find
        <<"d","i","d"," ","n","o","t"," ","h","a","v","e">>,   \* did not have
        <<"w","r","o","n","g"," ","s","i","z","e">>,   \* wrong size
        <<"d","i","d"," ","n","o","t"," ","f","i","t">>   \* did not fit
    >>

damage_keywords ==
    <<
        <<"b","u","r","n","t">>,   \* burnt
        <<"b","u","r","n","e","d">>,   \* burned
        <<"b","u","r","n"," ","d","a","m","a","g","e">>,   \* burn damage
        <<"m","e","l","t","e","d">>,   \* melted
        <<"d","e","s","t","r","o","y","e","d">>,   \* destroyed
        <<"b","e","y","o","n","d"," ","r","e","p","a","i","r">>,   \* beyond repair
        <<"s","h","o","r","t","e","d"," ","o","u","t">>,   \* shorted out
        <<"c","o","m","p","l","e","t","e","l","y"," ","f","a","i","l","e","d">>,   \* completely failed
        <<"s","e","v","e","r","e">>,   \* severe
        <<"t","r","a","u","m","a">>   \* trauma
    >>

elec_keywords ==
    <<
        <<"c","i","r","c","u","i","t"," ","b","o","a","r","d">>,   \* circuit board
        <<"c","o","n","t","r","o","l","l","e","r">>,   \* controller
        <<"s","w","i","t","c","h"," ","f","a","i","l","u","r","e">>,   \* switch failure
        <<"m","o","t","o","r"," ","f","a","i","l","u","r","e">>,   \* motor failure
        <<"b","r","o","k","e","n"," ","w","i","r","e","s">>,   \* broken wires
        <<"f","a","u","l","t","y">>,   \* faulty
        <<"c","e","l","l","s">>,   \* cells
        <<"b","a","t","t","e","r","y">>,   \* battery
        <<"b","o","a","r","d"," ","f","a","i","l">>   \* board fail
    >>

\* any(kw in reason_lower for kw in keywords)
any_in(keywords, text) == \E j \in 1..Len(keywords) : In(keywords[j], text)

\* a variant of categorize that tests the severe-damage group first
categorize_damage_first(r) ==
    IF isna(r) THEN Return("Unknown")
    ELSE IF r.kind # "str" THEN Raise("AttributeError")
    ELSE LET reason_lower == lower(r.chars) IN
         IF any_in(damage_keywords, reason_lower) THEN Return("Severe Damage")
         ELSE IF any_in(econ_keywords, reason_lower) THEN Return("Not Economical")
         ELSE IF any_in(water_keywords, reason_lower) THEN Return("Water/Corrosion")
         ELSE IF any_in(parts_keywords, reason_lower) THEN Return("Parts Unavailable")
         ELSE IF any_in(elec_keywords, reason_lower) THEN Return("Component Failure")
         ELSE Return("Other")

categorize(r) ==
    IF isna(r) THEN Return("Unknown")
    \* reason.lower() on a non-str value
    ELSE IF r.kind # "str" THEN Raise("AttributeError")
    ELSE LET reason_lower == lower(r.chars) IN
         IF any_in(econ_keywords, reason_lower) THEN Return("Not Economical")
         ELSE IF \/ In(water_keywords[1], reason_lower)
                 \/ In(water_keywords[2], reason_lower)
                 \/ In(water_keywords[3], reason_lower)
                 \/ In(water_keywords[4], reason_lower)
              THEN Return("Water/Corrosion")
         ELSE IF any_in(parts_keywords, reason_lower) THEN Return("Parts Unavailable")
         ELSE IF any_in(damage_keywords, reason_lower) THEN Return("Severe Damage")
         ELSE IF any_in(elec_keywords, reason_lower) THEN Return("Component Failure")
         ELSE Return("Other")

(***************************************************************************)
(* Inputs of the categoriser                                               *)
(***************************************************************************)
ReasonTokens ==
    { <<"t","o","o"," ","e","x","p","e","n","s","i","v","e">>,
      <<"W","a","t","e","r">>,
      <<" ","d","a","m","a","g","e">>,
      <<"b","u","r","n","t">>,
      <<"n","o","t"," ","a","v","a","i","l","a","b","l","e">>,
      <<"f","a","u","l","t","y">>,
      <<" ","b","o","a","r","d">>,
      <<" ","m","o","t","o","r"," ","f","a","i","l","u","r","e">>,
      <<"n","o","i","s","e">> }

GeneratedReasons == { Concat(ws) : ws \in SeqsUpTo(ReasonTokens, MaxReasonTokens) }

TooExpensiveToFix ==
    <<"t","o","o"," ","e","x","p","e","n","s","i","v","e"," ","t","o"," ","f","i","x">>

WaterDamageToTheBoard ==
    <<"w","a","t","e","r"," ","d","a","m","a","g","e"," ","t","o"," ","t","h","e"," ",
      "b","o","a","r","d">>

NotEconomicalBurnt ==
    <<"N","o","t"," ","e","c","o","n","o","m","i","c","a","l",","," ","t","h","e"," ",
      "m","o","t","o","r"," ","i","s"," ","b","u","r","n","t"," ","o","u","t">>

ExampleReasons == { TooExpensiveToFix, WaterDamageToTheBoard, NotEconomicalBurnt }

ReasonInputs ==
    { Str(s) : s \in GeneratedReasons \cup ExampleReasons } \cup { None, Num(0), Num(5) }

InitCategorize ==
    /\ pc = "start"
    /\ reason \in ReasonInputs
    /\ category = "none"
    /\ raised = "none"
    /\ component = None
    /\ labels = <<>>
    /\ first = <<>>
    /\ df = <<>>
    /\ op = "none"
    /\ stats = <<>>
    /\ store = <<>>
    /\ MainIdle

Categorize ==
    /\ pc = "start"
    /\ LET r == categorize(reason) IN
        /\ category' = (IF r.exc = "none" THEN r.value ELSE "none")
        /\ raised' = r.exc
    /\ pc' = "categorized"
    /\ UNCHANGED <<reason, component, labels, first, df, op, stats, store, mainVars>>

NextCategorize == Categorize

SpecCategorize == InitCategorize /\ [][NextCategorize]_vars

(***************************************************************************)
(* Properties of the categoriser                                           *)
(***************************************************************************)
\* the keyword groups in the order the claim gives them
FailureGroups ==
    << [category |-> "Not Economical", keywords |-> econ_keywords],
       [category |-> "Water/Corrosion", keywords |-> water_keywords],
       [category |-> "Parts Unavailable", keywords |-> parts_keywords],
       [category |-> "Severe Damage", keywords |-> damage_keywords],
       [category |-> "Component Failure", keywords |-> elec_keywords] >>

MatchingGroups(text) ==
    { g \in 1..Len(FailureGroups) :
        \E j \in 1..Len(FailureGroups[g].keywords) : In(FailureGroups[g].keywords[j], text) }

\* C6: a null reason is Unknown; otherwise the category is that of the first
\* group, in the order economic, water/corrosion, parts, severe damage,
\* component, with a keyword occurring in the lowercased reason, and Other
\* when no group has one.
C6_FirstGroupWins ==
    (pc = "categorized" /\ reason.kind # "num")
    => /\ raised = "none"
       /\ category =
            IF reason = None THEN "Unknown"
            ELSE IF MatchingGroups(lower(reason.chars)) = {} THEN "Other"
            ELSE FailureGroups[Min(MatchingGroups(lower(reason.chars)))].category

\* C6 witness: a reason with both an economic and a severe-damage keyword
\* is categorised Not Economical.
C6_Witness ==
    /\ pc = "categorized"
    /\ reason.kind = "str"
    /\ any_in(econ_keywords, lower(reason.chars))
    /\ any_in(damage_keywords, lower(reason.chars))
    /\ category = "Not Economical"

(***************************************************************************)
(* The record collection and the aggregations over it.  A row holds the    *)
(* columns the aggregations read.                                          *)
(***************************************************************************)
Row(b, t, s, r) == [brand |-> b, tool_type |-> t, successful |-> s, failure_reason |-> r]

\* df[column]: the values of one column, in row order
Column(rows, field) == [i \in 1..Len(rows) |-> rows[i][field]]

\* rows[mask]: boolean-mask indexing, the rows whose mask entry is true, in order
RECURSIVE Mask(_, _)
Mask(rows, mask) ==
    IF Len(rows) = 0 THEN <<>>
    ELSE (IF Head(mask) THEN <<Head(rows)>> ELSE <<>>) \o Mask(Tail(rows), Tail(mask))

\* the orders in which a sort by descending key may leave a set of rows:
\* sort_values / value_counts do not fix the order of rows with equal keys
SortedDescending(S, field) ==
    { f \in [1..Cardinality(S) -> S] :
        \A i, j \in 1..Cardinality(S) :
            i < j => (f[i] # f[j] /\ f[i][field] >= f[j][field]) }

\* a quotient kept exact: num / den
Fraction(n, d) == [num |-> n, den |-> d]

\* the (value, count) pairs of the distinct values of a sequence
count_pairs(values) ==
    { [value |-> v, count |-> Len(Mask(values, [i \in 1..Len(values) |-> values[i] = v]))] :
        v \in { values[i] : i \in 1..Len(values) } }

\* a variant of value_counts that keeps NaN as a value of its own (dropna=False)
value_counts_keep_nan(values) == SortedDescending(count_pairs(values), "count")

\* Series.value_counts(): NaN dropped, one (value, count) pair per distinct
\* value, by descending count
value_counts(values) ==
    SortedDescending(
        count_pairs(Mask(values, [i \in 1..Len(values) |-> ~isna(values[i])])), "count")

(***************************************************************************)
(* get_tool_type_counts                                                    *)
(***************************************************************************)
get_tool_type_counts_keep_nan(rows) ==
    { [i \in 1..Len(counts) |-> [tool_type |-> counts[i].value, count |-> counts[i].count]] :
        counts \in value_counts_keep_nan(Column(rows, "tool_type")) }

get_tool_type_counts(rows) ==
    { [i \in 1..Len(counts) |-> [tool_type |-> counts[i].value, count |-> counts[i].count]] :
        counts \in value_counts(Column(rows, "tool_type")) }

(***************************************************************************)
(* compute_brand_stats                                                     *)
(***************************************************************************)
\* groupby("brand"): one group per distinct non-null brand
brand_groups(rows) == { rows[i].brand : i \in 1..Len(rows) } \ { None }

\* the rows of one group
brand_group(rows, b) == Mask(rows, [i \in 1..Len(rows) |-> rows[i].brand = b])

\* (x == True).sum() and (x == False).sum() over the successful column of a group
count_equal(group, v) ==
    Len(Mask(group, [i \in 1..Len(group) |-> group[i].successful = v]))

\* completed.groupby("brand")["successful"].mean() * 100, left-merged on brand,
\* NaN (no completed row of that brand) filled with 0
success_rate(rows, b) ==
    LET completed == Mask(rows, [i \in 1..Len(rows) |-> ~isna(rows[i].successful)])
        group == brand_group(completed, b)
    IN  IF Len(group) = 0 THEN Fraction(0, 1)
        ELSE Fraction(100 * count_equal(group, PyTrue), Len(group))

\* a variant that takes the mean over all the rows of the brand, pending included
success_rate_over_all(rows, b) ==
    LET group == brand_group(rows, b)
    IN  IF Len(group) = 0 THEN Fraction(0, 1)
        ELSE Fraction(100 * count_equal(group, PyTrue), Len(group))

brand_row(rows, b, rate) ==
    LET group == brand_group(rows, b) IN
    [brand |-> b,
     total_repairs |-> Len(Mask(group, [i \in 1..Len(group) |-> ~isna(group[i].brand)])),
     successful_repairs |-> count_equal(group, PyTrue),
     failed_repairs |-> count_equal(group, PyFalse),
     success_rate |-> rate]

compute_brand_stats_rate_over_all(rows) ==
    SortedDescending({ brand_row(rows, b, success_rate_over_all(rows, b)) :
                         b \in brand_groups(rows) },
                     "total_repairs")

compute_brand_stats(rows) ==
    SortedDescending({ brand_row(rows, b, success_rate(rows, b)) : b \in brand_groups(rows) },
                     "total_repairs")

(***************************************************************************)
(* categorize_failure_reasons                                              *)
(***************************************************************************)
\* failed["failure_reason"].apply(categorize), then value_counts
count_categories(failed) ==
    IF \E i \in 1..Len(failed) : categorize(failed[i].failure_reason).exc # "none"
    THEN { Raise("AttributeError") }
    ELSE { Return([i \in 1..Len(counts) |->
                     [failure_category |-> counts[i].value.chars, count |-> counts[i].count]]) :
             counts \in value_counts(
                 [i \in 1..Len(failed) |-> Str(categorize(failed[i].failure_reason).value)]) }

\* a variant whose mask is successful != True, which lets pending rows through
categorize_failure_reasons_not_true(rows) ==
    count_categories(Mask(rows, [i \in 1..Len(rows) |-> rows[i].successful # PyTrue]))

categorize_failure_reasons(rows) ==
    count_categories(Mask(rows, [i \in 1..Len(rows) |-> rows[i].successful = PyFalse]))

(***************************************************************************)
(* compute_component_stats                                                 *)
(***************************************************************************)
\* DataFrame.explode("components") over the columns components and successful:
\* one row per element of a list, one NaN row for an empty list, and a value
\* that is not a list left as it is
RECURSIVE explode(_)
explode(rows) ==
    IF Len(rows) = 0 THEN <<>>
    ELSE LET c == Head(rows).components
             s == Head(rows).successful
         IN  (IF c.kind # "list" THEN <<[components |-> c, successful |-> s]>>
              ELSE IF Len(c.items) = 0 THEN <<[components |-> NaN, successful |-> s]>>
              ELSE [k \in 1..Len(c.items) |-> [components |-> c.items[k], successful |-> s]])
             \o explode(Tail(rows))

\* the (component, count) rows of a value_counts result
component_counts(counts) ==
    [i \in 1..Len(counts) |-> [component |-> counts[i].value, count |-> counts[i].count]]

\* a variant of compute_component_stats that keeps the empty-string components
compute_component_stats_keep_empty(rows) ==
    IF \E i \in 1..Len(rows) : "components" \notin DOMAIN rows[i]
    THEN { Raise("KeyError") }
    ELSE LET exploded == explode(rows)
             kept == Mask(exploded, [i \in 1..Len(exploded) |-> ~isna(exploded[i].components)])
         IN  { Return(component_counts(counts)) :
                 counts \in value_counts(Column(kept, "components")) }

compute_component_stats(rows) ==
    \* df[["components", "successful"]] on a frame without the column
    IF \E i \in 1..Len(rows) : "components" \notin DOMAIN rows[i]
    THEN { Raise("KeyError") }
    ELSE LET exploded == explode(rows)
             kept == Mask(exploded,
                          [i \in 1..Len(exploded) |->
                              ~isna(exploded[i].components)
                                  /\ exploded[i].components # Str(<<>>)])
         IN  { Return(component_counts(counts)) :
                 counts \in value_counts(Column(kept, "components")) }

(***************************************************************************)
(* get_brand_tool_matrix: pd.crosstab(df["brand"], df["tool_type"]).  The   *)
(* table is held as its row labels, its column labels and its cells; the   *)
(* sorted order of the labels is left out.                                 *)
(***************************************************************************)
\* the table over given rows: labels from the rows, cells counting the rows
crosstab(kept) ==
    LET index == { kept[i].brand : i \in 1..Len(kept) }
        columns == { kept[i].tool_type : i \in 1..Len(kept) }
    IN  [ index |-> index,
          columns |-> columns,
          cells |-> [ bt \in index \X columns |->
                        Cardinality({ i \in 1..Len(kept) :
                            kept[i].brand = bt[1] /\ kept[i].tool_type = bt[2] }) ] ]

\* a variant that drops a record only when its brand is null
get_brand_tool_matrix_null_brand_only(rows) ==
    crosstab(Mask(rows, [i \in 1..Len(rows) |-> ~isna(rows[i].brand)]))

\* the grouping behind crosstab drops the records whose brand or tool_type is
\* null; absent combinations are filled with 0
get_brand_tool_matrix(rows) ==
    crosstab(Mask(rows, [i \in 1..Len(rows) |->
                            ~isna(rows[i].brand) /\ ~isna(rows[i].tool_type)]))

(***************************************************************************)
(* Collections the aggregations are applied to.  Each family varies the    *)
(* columns one aggregation reads and fixes the others.                     *)
(***************************************************************************)
Makita == Str(<<"M","a","k","i","t","a">>)
DeWalt == Str(<<"D","e","W","a","l","t">>)
Drill == Str(<<"d","r","i","l","l">>)
Saw == Str(<<"s","a","w">>)
Noise == <<"n","o","i","s","e">>

Brands == { Makita, DeWalt, None }
ToolTypes == { Drill, Saw, None }
Outcomes == { PyTrue, PyFalse, None }
FailureReasons == { Str(TooExpensiveToFix), Str(WaterDamageToTheBoard), Str(Noise), None }

BrandRows == { Row(b, Drill, s, None) : b \in Brands, s \in Outcomes }
ToolRows == { Row(b, t, PyTrue, None) : b \in Brands, t \in ToolTypes }
FailureRows == { Row(Makita, Drill, s, r) : s \in Outcomes, r \in FailureReasons }

\* rows carrying the components column
Bearing == Str(<<"B","e","a","r","i","n","g">>)
Switch == Str(<<"S","w","i","t","c","h">>)
ComponentRow(cs) ==
    [brand |-> Makita, tool_type |-> Drill, successful |-> PyTrue, failure_reason |-> None,
     components |-> cs]
ComponentLists ==
    { List(<<>>), List(<<Bearing>>), List(<<Bearing, Switch>>),
      List(<<Switch, Str(<<>>), None>>) }
ComponentRows == { ComponentRow(cs) : cs \in ComponentLists }

\* three successful, one failed and two pending repairs of one brand, and a
\* pending repair of another
SixMakita ==
    << Row(Makita, Drill, PyTrue, None), Row(Makita, Saw, PyFalse, Str(TooExpensiveToFix)),
       Row(Makita, Drill, None, None), Row(DeWalt, Saw, None, None),
       Row(Makita, Drill, PyTrue, None), Row(Makita, None, None, None),
       Row(Makita, Drill, PyTrue, None) >>

DataFrames ==
    SeqsUpTo(BrandRows, MaxRecords) \cup SeqsUpTo(ToolRows, MaxRecords)
        \cup SeqsUpTo(FailureRows, MaxRecords) \cup { SixMakita }
        \cup SeqsUpTo(ComponentRows, MaxRecords)

InitAggregate ==
    /\ pc = "loaded"
    /\ df \in DataFrames
    /\ op = "none"
    /\ stats = <<>>
    /\ store = <<>>
    /\ MainIdle
    /\ raised = "none"
    /\ component = None
    /\ labels = <<>>
    /\ first = <<>>
    /\ reason = None
    /\ category = "none"

ComputeBrandStats ==
    /\ pc = "loaded"
    /\ \E rows \in compute_brand_stats(df) : stats' = rows
    /\ op' = "compute_brand_stats"
    /\ raised' = "none"
    /\ UNCHANGED <<pc, df, component, labels, first, reason, category, store, mainVars>>

GetToolTypeCounts ==
    /\ pc = "loaded"
    /\ \E rows \in get_tool_type_counts(df) : stats' = rows
    /\ op' = "get_tool_type_counts"
    /\ raised' = "none"
    /\ UNCHANGED <<pc, df, component, labels, first, reason, category, store, mainVars>>

CategorizeFailureReasons ==
    /\ pc = "loaded"
    /\ \E r \in categorize_failure_reasons(df) :
        /\ stats' = r.value
        /\ raised' = r.exc
    /\ op' = "categorize_failure_reasons"
    /\ UNCHANGED <<pc, df, component, labels, first, reason, category, store, mainVars>>

\* a variant of the call of compute_component_stats that drops the records
\* without components from the collection itself
ComputeComponentStatsInPlace ==
    /\ pc = "loaded"
    /\ \E r \in compute_component_stats(df) :
        /\ stats' = r.value
        /\ raised' = r.exc
        /\ df' = IF r.exc = "none"
                 THEN Mask(df, [i \in 1..Len(df) |-> truthy(df[i].components)])
                 ELSE df
    /\ op' = "compute_component_stats"
    /\ UNCHANGED <<pc, component, labels, first, reason, category, store, mainVars>>

ComputeComponentStats ==
    /\ pc = "loaded"
    /\ \E r \in compute_component_stats(df) :
        /\ stats' = r.value
        /\ raised' = r.exc
    /\ op' = "compute_component_stats"
    /\ UNCHANGED <<pc, df, component, labels, first, reason, category, store, mainVars>>

GetBrandToolMatrix ==
    /\ pc = "loaded"
    /\ stats' = get_brand_tool_matrix(df)
    /\ op' = "get_brand_tool_matrix"
    /\ raised' = "none"
    /\ UNCHANGED <<pc, df, component, labels, first, reason, category, store, mainVars>>

NextAggregate ==
    \/ ComputeBrandStats
    \/ GetToolTypeCounts
    \/ CategorizeFailureReasons
    \/ ComputeComponentStats
    \/ GetBrandToolMatrix

SpecAggregate == InitAggregate /\ [][NextAggregate]_vars

(***************************************************************************)
(* load_repairs: the stored records (output.json) read into the            *)
(* collection.  A stored record is held with all the keys the loader       *)
(* reads, Absent marking a key the record does not carry.                  *)
(***************************************************************************)
Absent == [kind |-> "absent", chars |-> <<>>, num |-> 0]

Stored(b, t, s, r, c, cs) ==
    [brand |-> b, tool_type |-> t, successful |-> s, failure_reason |-> r,
     component |-> c, components |-> cs]

\* `key in df.columns`: pd.DataFrame(data) has a column for every key that
\* some record carries
has_column(data, key) == \E i \in 1..Len(data) : data[i][key] # Absent

\* the cell pd.DataFrame(data) holds for a record's key: NaN when it is absent
frame_value(v) == IF v = Absent THEN NaN ELSE v

\* the list normalize_components returned, as a list value
as_list(r) ==
    IF r.exc = "none"
    THEN Return(List([k \in 1..Len(r.value) |-> Str(r.value[k])]))
    ELSE r

\* a variant of the resolution of the two schemas that keeps whatever a
\* record carries under `components`
resolve_components_keep_stored(data, i) ==
    LET c == frame_value(data[i].component)
        cs == frame_value(data[i].components)
    IN  IF has_column(data, "component") /\ ~has_column(data, "components")
        THEN as_list(normalize_components(c))
        ELSE IF ~isna(cs) THEN Return(cs) ELSE as_list(normalize_components(c))

\* the components value of record i after the three branches on the columns
resolve_components(data, i) ==
    LET c == frame_value(data[i].component)
        cs == frame_value(data[i].components)
    IN  IF has_column(data, "component") /\ ~has_column(data, "components")
        THEN as_list(normalize_components(c))
        ELSE IF has_column(data, "component") /\ has_column(data, "components")
        THEN (IF cs.kind = "list" /\ truthy(cs)
              THEN Return(cs)
              ELSE as_list(normalize_components(c)))
        ELSE (IF cs.kind = "list" THEN Return(cs) ELSE as_list(normalize_components(cs)))

\* Series.map({True: "Successful", False: "Failed", None: "Pending"}): a value
\* that is no key of the dict, the NaN of an absent key among them, maps to NaN
map_outcome(s) ==
    CASE s = PyTrue -> "Successful"
      [] s = PyFalse -> "Failed"
      [] s = None -> "Pending"
      [] OTHER -> "NaN"

\* the row of record i in the frame load_repairs returns
loaded_row(data, i) ==
    [brand |-> frame_value(data[i].brand),
     tool_type |-> frame_value(data[i].tool_type),
     successful |-> frame_value(data[i].successful),
     failure_reason |-> frame_value(data[i].failure_reason),
     components |-> resolve_components(data, i).value,
     outcome |-> map_outcome(frame_value(data[i].successful))]

load_repairs(data) ==
    IF \E i \in 1..Len(data) : resolve_components(data, i).exc # "none"
    THEN Raise(resolve_components(data,
                 CHOOSE i \in 1..Len(data) : resolve_components(data, i).exc # "none").exc)
    \* df["successful"] on a frame without that column
    ELSE IF ~has_column(data, "successful") THEN Raise("KeyError")
    ELSE Return([i \in 1..Len(data) |-> loaded_row(data, i)])

(***************************************************************************)
(* Stored collections: one family varies the two component fields, the     *)
(* other the successful field.  Every record carries `component` or        *)
(* `components`.                                                           *)
(***************************************************************************)
MotorBrushes == <<"m","o","t","o","r"," ","b","r","u","s","h","e","s">>
Belt == <<"b","e","l","t">>

StoredComponent == { Absent, None, Str(MotorBrushes), Str(BearingsSwitchBelt) }
StoredComponents == { Absent, List(<<>>), List(<<Bearing, Switch>>), Str(Belt) }
StoredSuccessful == { PyTrue, PyFalse, None, Absent }

SchemaRecords ==
    { Stored(Makita, Drill, PyTrue, None, c, cs) :
        c \in StoredComponent, cs \in StoredComponents }
        \ { Stored(Makita, Drill, PyTrue, None, Absent, Absent) }
OutcomeRecords ==
    { Stored(Makita, Drill, s, None, Str(MotorBrushes), Absent) : s \in StoredSuccessful }

Stores == SeqsUpTo(SchemaRecords, MaxStore) \cup SeqsUpTo(OutcomeRecords, MaxStore)

InitDashboard ==
    /\ pc = "start"
    /\ store \in Stores
    /\ df = <<>>
    /\ op = "none"
    /\ stats = <<>>
    /\ MainIdle
    /\ raised = "none"
    /\ component = None
    /\ labels = <<>>
    /\ first = <<>>
    /\ reason = None
    /\ category = "none"

\* get_data(): df = load_repairs()
LoadRepairs ==
    /\ pc = "start"
    /\ LET r == load_repairs(store) IN
        /\ df' = r.value
        /\ raised' = r.exc
        /\ pc' = IF r.exc = "none" THEN "loaded" ELSE "failed"
    /\ UNCHANGED <<op, stats, component, labels, first, reason, category, store, mainVars>>

NextDashboard == LoadRepairs \/ NextAggregate

SpecDashboard == InitDashboard /\ [][NextDashboard]_vars

(***************************************************************************)
(* main.py: the URL-processing loop.  urls_to_add.txt and urls.txt are     *)
(* held as their lines, output.json as its list of records.  How fetching  *)
(* and analysing a video goes is outside the program: it is drawn from     *)
(* Scenarios.                                                              *)
(***************************************************************************)
Failures ==
    { "invalid_url",    \* extract_video_id finds no video id
      "no_transcript",  \* no transcript, transcripts disabled, or a fetch error
      "no_api_key",     \* ANTHROPIC_API_KEY not set
      "client_error",   \* the API client cannot be constructed
      "bad_json",       \* the LLM response is not JSON
      "api_error" }     \* any other exception while analysing
Scenarios == Failures \cup { "no_repairs", "one_repair", "two_repairs" }

\* RepairRecord.to_dict(): a record extracted from the video at url
Repair(url, n) ==
    [video_url |-> url, brand |-> Makita, tool_type |-> Drill,
     component |-> IF n = 1 THEN Str(MotorBrushes) ELSE Str(Belt),
     successful |-> IF n = 1 THEN PyTrue ELSE PyFalse, failure_reason |-> None]

\* fetch_transcript: every failure is raised as ValueError
fetch_transcript(url, scenario) ==
    IF scenario \in {"invalid_url", "no_transcript"}
    THEN Raise("ValueError")
    ELSE Return("transcript")

\* analyze_transcript: an AnalysisResult, with error set when there is no API
\* key or the try block failed; constructing the client is outside the try
analyze_transcript(url, scenario) ==
    CASE scenario = "client_error" -> Raise("Exception")
      [] scenario \in {"no_api_key", "bad_json", "api_error"} ->
            Return([error |-> TRUE, repairs |-> <<>>])
      [] scenario = "one_repair" ->
            Return([error |-> FALSE, repairs |-> <<Repair(url, 1)>>])
      [] scenario = "two_repairs" ->
            Return([error |-> FALSE, repairs |-> <<Repair(url, 1), Repair(url, 2)>>])
      [] OTHER -> Return([error |-> FALSE, repairs |-> <<>>])

\* a variant of process_video without the `except Exception` clause
process_video_value_error_only(url, scenario) ==
    LET u == strip(url) IN
    IF Len(u) = 0 \/ Head(u) = "#" THEN Return(<<>>)
    ELSE LET fetched == fetch_transcript(u, scenario) IN
         IF fetched.exc = "ValueError" THEN Return(<<>>)
         ELSE IF fetched.exc # "none" THEN Raise(fetched.exc)
         ELSE LET result == analyze_transcript(u, scenario) IN
              IF result.exc # "none" THEN Raise(result.exc)
              ELSE IF result.value.error THEN Return(<<>>)
              ELSE Return(result.value.repairs)

process_video(url, scenario) ==
    LET u == strip(url) IN
    IF Len(u) = 0 \/ Head(u) = "#" THEN Return(<<>>)
    ELSE LET fetched == fetch_transcript(u, scenario) IN
         \* except ValueError, except Exception
         IF fetched.exc = "ValueError" THEN Return(<<>>)
         ELSE IF fetched.exc # "none" THEN Return(<<>>)
         ELSE LET result == analyze_transcript(u, scenario) IN
              IF result.exc # "none" THEN Return(<<>>)
              ELSE IF result.value.error THEN Return(<<>>)
              ELSE Return(result.value.repairs)

\* load_output(): the stored list, [] when output.json does not exist
load_output(file) == file

\* a variant of the save that writes the new records alone
extend_from_empty(all_repairs, new) == new

\* all_repairs.extend(repairs), the list save_output then writes
extend(all_repairs, new) == all_repairs \o new

\* read_urls: the stripped non-empty, non-comment lines
RECURSIVE read_urls(_)
read_urls(lines) ==
    IF Len(lines) = 0 THEN <<>>
    ELSE (IF Len(strip(Head(lines))) > 0 /\ Head(strip(Head(lines))) # "#"
          THEN <<strip(Head(lines))>> ELSE <<>>) \o read_urls(Tail(lines))

\* a variant of remove_url_from_input that compares the lines unstripped
remove_url_from_input_unstripped(lines, url) ==
    Mask(lines, [i \in 1..Len(lines) |-> lines[i] # url])

\* remove_url_from_input: every line whose stripped text is the URL goes
remove_url_from_input(lines, url) ==
    Mask(lines, [i \in 1..Len(lines) |-> strip(lines[i]) # strip(url)])

\* append_url_to_archive
append_url_to_archive(lines, url) == Append(lines, strip(url))

VideoA == <<"y","t","/","a">>
VideoB == <<"y","t","/","b">>
VideoOld == <<"y","t","/","o">>
InputLines ==
    { VideoA, VideoB, <<" ">> \o VideoA \o <<" ">>, <<"#"," ","n","o","t","e">>, <<>> }
ArchiveFiles == { <<>>, <<VideoOld>> }
OutputFiles == { <<>>, <<Repair(VideoOld, 1)>> }

InitMain ==
    /\ pc = "main"
    /\ input_file \in SeqsUpTo(InputLines, MaxLines)
    /\ archive_file \in ArchiveFiles
    /\ store \in OutputFiles
    /\ urls = <<>>
    /\ idx = 0
    /\ repairs = <<>>
    /\ outcome = "none"
    /\ df = <<>>
    /\ op = "none"
    /\ stats = <<>>
    /\ raised = "none"
    /\ component = None
    /\ labels = <<>>
    /\ first = <<>>
    /\ reason = None
    /\ category = "none"

\* urls = read_urls(INPUT_FILE); sys.exit(0) when there is none
ReadUrls ==
    /\ pc = "main"
    /\ urls' = read_urls(input_file)
    /\ IF Len(read_urls(input_file)) = 0
       THEN pc' = "exit" /\ idx' = idx
       ELSE pc' = "process" /\ idx' = 1
    /\ UNCHANGED <<input_file, archive_file, store, repairs, outcome>>
    /\ UNCHANGED <<component, labels, first, reason, category, raised, df, op, stats>>

\* repairs = process_video(url); an exception leaving it would leave main
ProcessVideo ==
    /\ pc = "process"
    /\ \E scenario \in Scenarios :
        LET r == process_video(urls[idx], scenario) IN
        /\ outcome' = scenario
        /\ repairs' = r.value
        /\ pc' = IF r.exc # "none" THEN "crashed"
                 ELSE IF Len(r.value) > 0 THEN "save" ELSE "remove"
    /\ UNCHANGED <<input_file, archive_file, store, urls, idx>>
    /\ UNCHANGED <<component, labels, first, reason, category, raised, df, op, stats>>

\* if repairs: load_output(), extend, save_output()
SaveOutput ==
    /\ pc = "save"
    /\ store' = extend(load_output(store), repairs)
    /\ pc' = "remove"
    /\ UNCHANGED <<input_file, archive_file, urls, idx, repairs, outcome>>
    /\ UNCHANGED <<component, labels, first, reason, category, raised, df, op, stats>>

RemoveUrl ==
    /\ pc = "remove"
    /\ input_file' = remove_url_from_input(input_file, urls[idx])
    /\ pc' = "archive"
    /\ UNCHANGED <<archive_file, store, urls, idx, repairs, outcome>>
    /\ UNCHANGED <<component, labels, first, reason, category, raised, df, op, stats>>

\* append_url_to_archive(url), then the next URL of the loop
AppendUrl ==
    /\ pc = "archive"
    /\ archive_file' = append_url_to_archive(archive_file, urls[idx])
    /\ IF idx < Len(urls)
       THEN pc' = "process" /\ idx' = idx + 1
       ELSE pc' = "done" /\ idx' = idx
    /\ UNCHANGED <<input_file, store, urls, repairs, outcome>>
    /\ UNCHANGED <<component, labels, first, reason, category, raised, df, op, stats>>

NextMain == ReadUrls \/ ProcessVideo \/ SaveOutput \/ RemoveUrl \/ AppendUrl

SpecMain == InitMain /\ [][NextMain]_vars

(***************************************************************************)
(* Properties of the aggregations                                          *)
(***************************************************************************)
\* the positions of the rows of the collection whose column `field` holds v
RowsWith(field, v) == { i \in 1..Len(df) : df[i][field] = v }

RECURSIVE SumCounts(_)
SumCounts(rows) == IF Len(rows) = 0 THEN 0 ELSE Head(rows).count + SumCounts(Tail(rows))

\* C4 as stated: get_tool_type_counts has one bucket per tool_type value, the
\* null value included, so that the counts sum to the number of records.
C4_NullBucketIncluded ==
    op = "get_tool_type_counts"
    => /\ \A i \in 1..Len(df) : \E k \in 1..Len(stats) :
            /\ stats[k].tool_type = df[i].tool_type
            /\ stats[k].count = Cardinality(RowsWith("tool_type", df[i].tool_type))
       /\ SumCounts(stats) = Len(df)

\* C4 amended: get_tool_type_counts has exactly one bucket per non-null
\* tool_type value, holding the number of records with that value; records
\* with a null tool_type are in no bucket, and the counts sum to the number of
\* records whose tool_type is not null.
C4_NonNullToolTypesCounted ==
    op = "get_tool_type_counts"
    => /\ \A i \in 1..Len(df) : df[i].tool_type # None =>
            \E k \in 1..Len(stats) :
                /\ stats[k].tool_type = df[i].tool_type
                /\ stats[k].count = Cardinality(RowsWith("tool_type", df[i].tool_type))
       /\ \A k \in 1..Len(stats) :
            /\ stats[k].tool_type # None
            /\ \E i \in 1..Len(df) : df[i].tool_type = stats[k].tool_type
            /\ \A j \in 1..Len(stats) : stats[j].tool_type = stats[k].tool_type => j = k
       /\ SumCounts(stats) = Len(df) - Cardinality(RowsWith("tool_type", None))

\* C4 witness: counts taken of a collection holding null and non-null tool types
C4_Witness ==
    /\ op = "get_tool_type_counts"
    /\ \E i, j \in 1..Len(df) : df[i].tool_type = None /\ df[j].tool_type # None
    /\ Len(stats) > 0
    /\ SumCounts(stats) < Len(df)

\* C5: compute_brand_stats has one row per distinct brand, with total = the
\* number of records of the brand, successful = those with successful true,
\* failed = those with successful false, and success_rate =
\* successful / (successful + failed) * 100, or 0 when successful + failed = 0.
C5_BrandStats ==
    op = "compute_brand_stats"
    => /\ \A i \in 1..Len(df) : df[i].brand # None =>
            \E k \in 1..Len(stats) : stats[k].brand = df[i].brand
       /\ \A k \in 1..Len(stats) :
            LET b == stats[k].brand
                total == Cardinality(RowsWith("brand", b))
                succeeded == Cardinality(RowsWith("brand", b) \cap RowsWith("successful", PyTrue))
                failed == Cardinality(RowsWith("brand", b) \cap RowsWith("successful", PyFalse))
            IN  /\ total > 0
                /\ \A j \in 1..Len(stats) : stats[j].brand = b => j = k
                /\ stats[k].total_repairs = total
                /\ stats[k].successful_repairs = succeeded
                /\ stats[k].failed_repairs = failed
                /\ stats[k].success_rate.den > 0
                /\ IF succeeded + failed = 0
                   THEN stats[k].success_rate.num = 0
                   ELSE stats[k].success_rate.num * (succeeded + failed)
                            = 100 * succeeded * stats[k].success_rate.den

\* C5 witness: a brand with 3 successful, 1 failed and 2 pending repairs has
\* total 6 and rate 75, and a brand with pending repairs only has rate 0.
C5_Witness ==
    /\ op = "compute_brand_stats"
    /\ \E k \in 1..Len(stats) :
        /\ stats[k].total_repairs = 6
        /\ stats[k].successful_repairs = 3
        /\ stats[k].failed_repairs = 1
        /\ stats[k].success_rate.num = 75 * stats[k].success_rate.den
    /\ \E k \in 1..Len(stats) :
        /\ stats[k].successful_repairs + stats[k].failed_repairs = 0
        /\ stats[k].success_rate.num = 0

FailureCategories ==
    { "Not Economical", "Water/Corrosion", "Parts Unavailable", "Severe Damage",
      "Component Failure", "Other", "Unknown" }

\* C7: categorize_failure_reasons counts one category of the closed set for
\* each record with successful == false and none for any other record: each
\* category's count is the number of failed records of that category, and the
\* counts sum to the number of failed records.
C7_OnlyFailedCategorized ==
    op = "categorize_failure_reasons"
    => /\ raised = "none"
       /\ \A k \in 1..Len(stats) :
            /\ stats[k].failure_category \in FailureCategories
            /\ \A j \in 1..Len(stats) :
                stats[j].failure_category = stats[k].failure_category => j = k
            /\ stats[k].count > 0
            /\ stats[k].count =
                Cardinality({ i \in RowsWith("successful", PyFalse) :
                    categorize(df[i].failure_reason).value = stats[k].failure_category })
       /\ SumCounts(stats) = Cardinality(RowsWith("successful", PyFalse))

\* C7 witness: a failed record is counted while a successful record with a
\* failure reason and a pending record are not.
C7_Witness ==
    /\ op = "categorize_failure_reasons"
    /\ \E i, j, k \in 1..Len(df) :
        /\ df[i].successful = PyFalse
        /\ df[j].successful = PyTrue /\ df[j].failure_reason # None
        /\ df[k].successful = None
    /\ SumCounts(stats) = 1

\* the (record, position) pairs of the components lists of the collection
\* holding a component that is neither null nor the empty string
NonEmptyComponents ==
    UNION { { <<i, k>> : k \in { n \in 1..Len(df[i].components.items) :
                                    /\ ~isna(df[i].components.items[n])
                                    /\ df[i].components.items[n] # Str(<<>>) } } :
            i \in 1..Len(df) }

\* C12: compute_component_stats counts one row per (record, component) pair,
\* null and empty-string components dropped: each label's count is the number
\* of its occurrences in the components lists, the rows are in descending
\* order of count, a record with an empty list adds nothing, and the counts
\* sum to the number of non-empty components over all records.
C12_ComponentCounts ==
    (op = "compute_component_stats" /\ raised = "none")
    => /\ \A i, j \in 1..Len(stats) :
            i < j => /\ stats[i].count >= stats[j].count
                     /\ stats[i].component # stats[j].component
       /\ \A k \in 1..Len(stats) :
            /\ stats[k].count > 0
            /\ stats[k].count =
                 Cardinality({ ik \in NonEmptyComponents :
                     df[ik[1]].components.items[ik[2]] = stats[k].component })
       /\ \A ik \in NonEmptyComponents :
            \E k \in 1..Len(stats) :
                stats[k].component = df[ik[1]].components.items[ik[2]]
       /\ SumCounts(stats) = Cardinality(NonEmptyComponents)

\* C12 witness: a record with [Bearing, Switch], a record with [Bearing] and a
\* record with the empty list give Bearing 2 and Switch 1, in that order.
C12_Witness ==
    /\ op = "compute_component_stats"
    /\ raised = "none"
    /\ Len(df) = 3
    /\ \E i, j, k \in 1..Len(df) :
        /\ df[i].components = List(<<Bearing, Switch>>)
        /\ df[j].components = List(<<Bearing>>)
        /\ df[k].components = List(<<>>)
    /\ stats = << [component |-> Bearing, count |-> 2], [component |-> Switch, count |-> 1] >>

\* the records of the collection with a given brand and a given tool type
RecordsOf(b, t) == RowsWith("brand", b) \cap RowsWith("tool_type", t)

\* C13 as stated: the matrix has a cell for every brand and every tool type
\* occurring in the collection, holding the number of records with that brand
\* and that tool type.
C13_EveryBrandAndToolType ==
    op = "get_brand_tool_matrix"
    => \A b \in { df[i].brand : i \in 1..Len(df) } \ { None } :
         \A t \in { df[i].tool_type : i \in 1..Len(df) } \ { None } :
            /\ <<b, t>> \in DOMAIN stats.cells
            /\ stats.cells[<<b, t>>] = Cardinality(RecordsOf(b, t))

\* the records whose brand and tool type are both non-null
Complete == { i \in 1..Len(df) : ~isna(df[i].brand) /\ ~isna(df[i].tool_type) }

\* C13 amended: the matrix is taken over the records whose brand and tool type
\* are both non-null: its rows are their brands, its columns their tool types,
\* and cell (b, t) is the number of records with brand b and tool type t, 0
\* when the two never occur together.
C13_CompleteRecordsCounted ==
    op = "get_brand_tool_matrix"
    => /\ stats.index = { df[i].brand : i \in Complete }
       /\ stats.columns = { df[i].tool_type : i \in Complete }
       /\ DOMAIN stats.cells = stats.index \X stats.columns
       /\ \A bt \in DOMAIN stats.cells :
            stats.cells[bt] = Cardinality(RecordsOf(bt[1], bt[2]))

\* C13 witness: a matrix with a cell of 1, a cell of 0, and a record left out
\* because its tool type is null.
C13_Witness ==
    /\ op = "get_brand_tool_matrix"
    /\ \E bt \in DOMAIN stats.cells : stats.cells[bt] = 0
    /\ \E bt \in DOMAIN stats.cells : stats.cells[bt] = 1
    /\ \E i \in 1..Len(df) : ~isna(df[i].brand) /\ isna(df[i].tool_type)

(***************************************************************************)
(* Properties of the loader                                                *)
(***************************************************************************)
\* C11: after load_repairs every record's components value is a list; for a
\* record carrying both fields it is the record's own components when that is
\* a non-empty list and normalize_components(component) otherwise; the legacy
\* component field is no longer present.
C11_ComponentsResolved ==
    pc = "loaded"
    => \A i \in 1..Len(df) :
        /\ df[i].components.kind = "list"
        /\ "component" \notin DOMAIN df[i]
        /\ (store[i].component # Absent /\ store[i].components # Absent)
            => df[i].components =
                 IF store[i].components.kind = "list" /\ Len(store[i].components.items) > 0
                 THEN store[i].components
                 ELSE as_list(normalize_components(store[i].component)).value

\* C11 witness: a record with both fields whose components is a stray string
\* got the normalised legacy component, next to a record that kept its own
\* non-empty list.
C11_Witness ==
    /\ pc = "loaded"
    /\ Len(store) = 2
    /\ \E i, j \in 1..Len(store) :
        /\ store[i].component = Str(MotorBrushes)
        /\ store[i].components = Str(Belt)
        /\ df[i].components =
             List(<<Str(<<"M","o","t","o","r"," ","B","r","u","s","h","e","s">>)>>)
        /\ store[j].component # Absent
        /\ store[j].components = List(<<Bearing, Switch>>)
        /\ df[j].components = List(<<Bearing, Switch>>)

\* the outcome the claim gives a stored value of successful
ClaimedOutcome(s) ==
    CASE s = PyTrue -> "Successful"
      [] s = PyFalse -> "Failed"
      [] OTHER -> "Pending"

\* C14: load_repairs gives every record exactly one outcome, derived from its
\* successful field alone: true Successful, false Failed, absent or null
\* Pending; no record is left without an outcome.
C14_OutcomeForEveryRecord ==
    (pc \in {"loaded", "failed"} /\ Len(store) > 0)
    => /\ pc = "loaded"
       /\ \A i \in 1..Len(df) : df[i].outcome = ClaimedOutcome(store[i].successful)

\* C18: load_repairs does not write the stored records, and no aggregation
\* changes the collection it is given, whichever aggregations are called and
\* in whatever order.
C18_ReadOnly ==
    [][store' = store /\ (pc = "loaded" => df' = df)]_vars

\* C18 witness: component statistics were computed from a loaded collection
\* that still equals what load_repairs returns for the unchanged store.
C18_Witness ==
    /\ pc = "loaded"
    /\ op = "compute_component_stats"
    /\ Len(stats) > 0
    /\ Len(store) = 2
    /\ df = load_repairs(store).value

(***************************************************************************)
(* Properties of main                                                      *)
(***************************************************************************)
IsPrefix(a, b) == Len(a) <= Len(b) /\ SubSeq(b, 1, Len(a)) = a
IsSuffix(a, b) == Len(a) <= Len(b) /\ SubSeq(b, Len(b) - Len(a) + 1, Len(b)) = a

\* the URLs standing on the lines of a file
UrlsIn(lines) == { strip(lines[j]) : j \in 1..Len(lines) }

\* C15: across the steps of main the content of output.json only grows at
\* its end: the previous content is a prefix of the new content.
C15_AppendOnly ==
    [][IsPrefix(store, store')]_vars

\* C15 witness: the records of a video have been saved after the record
\* output.json already held.
C15_Witness ==
    /\ pc = "remove"
    /\ Len(repairs) = 2
    /\ store = <<Repair(VideoOld, 1)>> \o repairs

\* C16: a failure in fetching or analysing a video ends the work on that
\* video only: process_video returns no records, output.json is not changed
\* for that video, nothing is raised into the loop, and main moves the URL
\* and goes on with the next one.
C16_FailureIsLocal ==
    [][ /\ pc' # "crashed"
        /\ (pc = "process" /\ outcome' \in Failures)
            => (repairs' = <<>> /\ pc' = "remove" /\ store' = store)
        /\ (pc = "remove" /\ outcome \in Failures)
            => (store' = store /\ pc' = "archive")
        /\ (pc = "archive" /\ outcome \in Failures)
            => /\ store' = store
               /\ IF idx < Len(urls)
                  THEN pc' = "process" /\ idx' = idx + 1
                  ELSE pc' = "done" ]_vars

\* C16 witness: the first of two videos could not be analysed, output.json
\* is as it was, and main is about to process the second.
C16_Witness ==
    /\ pc = "process"
    /\ idx = 2
    /\ outcome = "bad_json"
    /\ store \in OutputFiles
    /\ urls[1] \in UrlsIn(archive_file)

\* C17: when main finishes no processed URL remains in urls_to_add.txt and
\* the processed URLs stand at the end of urls.txt in processing order,
\* whether or not their processing succeeded; and when a URL is moved its
\* records are already in output.json.
C17_EveryUrlMoved ==
    /\ pc = "done"
        => /\ \A k \in 1..Len(urls) : urls[k] \notin UrlsIn(input_file)
           /\ \E old \in ArchiveFiles : archive_file = old \o urls
    /\ pc \in {"remove", "archive"} => IsSuffix(repairs, store)

\* C17 witness: main finished with two URLs, the first with records and the
\* second failed.
C17_Witness ==
    /\ pc = "done"
    /\ Len(urls) = 2
    /\ urls[1] # urls[2]
    /\ \E k \in 1..Len(store) : store[k].video_url = urls[1]
    /\ outcome = "no_transcript"

====
